---- MODULE Spec2Model ----
(***************************************************************************)
(* The convergence sweep of scripts/CP2K/integration_grid_optimizer.py     *)
(* (IntegrationGridOptimizer) as a state machine.                          *)
(*                                                                         *)
(* Energies, forces and the tolerance are floats in the source; they are   *)
(* integers here, in one common unit, which keeps every operation the      *)
(* sweep applies to them (difference, truthiness of a difference,          *)
(* strict comparison with the tolerance).                                  *)
(*                                                                         *)
(*   Spec       run_optimizer on the optimizer as __init__ leaves it       *)
(*   SpecSweep  run_optimizer on an optimizer whose histories were filled  *)
(*              in by its owner and whose artifact lookup returns          *)
(*   SpecCheck  _check_progress on arbitrary histories                     *)
(*   SpecConstruct  the constructor, then run_optimizer                    *)
(*   SpecExtract    _fetch_properties on arbitrary output files            *)
(*   SpecRange      _get_static_range on arbitrary start <= stop           *)
(***************************************************************************)
EXTENDS Integers, Sequences, FiniteSets, TLC

VARIABLES
    pc,            \* position inside run_optimizer
    status,        \* "running", "done", "exit" (sys.exit) or the exception raised
    stage,         \* index into StageOrder of the sweep method being executed
    idx,           \* number of items the current for loop has taken
    start,         \* self.start
    stop,          \* self.stop
    atoms,         \* self.atoms: "None" or "Atoms"
    tolerance,     \* self.tolerance
    project_name,  \* self.project_name
    files,         \* what glob.glob(f"{cwd}/*.xyz") returns
    loop_range,    \* self.loop_range
    m_grid,        \* the entries of self.m_grid.__dict__ the optimizer has written
    energy_array,  \* self.energy_array
    force_array,   \* self.force_array
    verdict,       \* the values _check_progress returned in each sweep method
    outcome,       \* how each sweep method's loop has ended so far
    accepted,      \* m_grid's value for a parameter when its sweep method returned
    cell,          \* number of create_cell/create_coord bindings made
    runs,          \* the calculator.run() calls so far, with the input each saw
    nums,          \* the num argument of the np.linspace call for each parameter
    template_file, \* the template_file argument: "None" or a file name
    calculator,    \* the calls __init__ has made to build self.calculator
    artifact       \* the lines of the output file the last engine run left

vars == <<pc, status, stage, idx, start, stop, atoms, tolerance, project_name,
          files, loop_range, m_grid, energy_array, force_array, verdict,
          outcome, accepted, cell, runs,
          nums, template_file, calculator, artifact>>

(***************************************************************************)
(* Bounds of the model.                                                    *)
(***************************************************************************)
\* Number of candidates np.linspace generates for each parameter (the source
\* asks for 10, 10 and 4; the sweep is the same loop for any count >= 2).
NumCutoff == 3
NumRelCutoff == 3
NumNgrids == 2
\* Longest history handed to _check_progress in SpecCheck.
MaxHist == 3
\* Longest output file (lines after the first) handed to _fetch_properties.
MaxLines == 5
\* Largest start/stop value handed to _get_static_range in SpecRange.
MaxEnd == 12

(***************************************************************************)
(* Program constants.                                                      *)
(***************************************************************************)
DefaultStart == [Cutoff |-> 100, Ngrids |-> 5, Rel_cutoff |-> 60]
DefaultStop == [Cutoff |-> 1500, Ngrids |-> 8, Rel_cutoff |-> 120]

Params == {"Cutoff", "Rel_cutoff", "Ngrids"}

\* The order in which run_optimizer calls the three sweep methods.
StageOrder_Swapped == <<"Rel_cutoff", "Cutoff", "Ngrids">>
StageOrder == <<"Cutoff", "Rel_cutoff", "Ngrids">>

\* The key each sweep method hands to _check_progress.
CheckKey(p) == IF p = "Ngrids" THEN "nNrids" ELSE p


\* Energies and mean forces an engine run can yield.
Energies == {0, 1}
Forces == {0, 1}

Last(s) == s[Len(s)]

(***************************************************************************)
(* np.linspace(a, b, num, dtype=int) for integers 0 <= a <= b, num >= 2:   *)
(* a + i*(b-a)/(num-1) for i = 0..num-1, truncated to an integer.          *)
(***************************************************************************)
Linspace_NoEndpoint(a, b, num) == [i \in 1..num |-> a + ((i - 1) * (b - a)) \div num]
Linspace(a, b, num) == [i \in 1..num |-> a + ((i - 1) * (b - a)) \div (num - 1)]

\* The num arguments _get_static_range passes, and the shorter lists the
\* sweep specification uses in their place.
SourceNum == [Cutoff |-> 10, Rel_cutoff |-> 10, Ngrids |-> 4]
SweepNum == [Cutoff |-> NumCutoff, Rel_cutoff |-> NumRelCutoff, Ngrids |-> NumNgrids]

GetStaticRangeOf(st, sp, n) ==
    [Cutoff     |-> Linspace(st.Cutoff, sp.Cutoff, n.Cutoff),
     Rel_cutoff |-> Linspace(st.Rel_cutoff, sp.Rel_cutoff, n.Rel_cutoff),
     Ngrids     |-> Linspace(st.Ngrids, sp.Ngrids, n.Ngrids)]

\* stop given as a string (the 'auto' option) instead of a dictionary.
AutoStop == [str |-> "auto"]
IsStr(sp) == DOMAIN sp = {"str"}

(***************************************************************************)
(* _update_property: every key of updater is written into m_grid; no other *)
(* key is touched.                                                         *)
(***************************************************************************)
UpdateProperty_Clobber(m, updater) == updater
UpdateProperty(m, updater) ==
    [k \in DOMAIN m \cup DOMAIN updater |->
        IF k \in DOMAIN updater THEN updater[k] ELSE m[k]]

\* A dict with the single key p.
Single(p, v) == [k \in {p} |-> v]

(***************************************************************************)
(* _get_force_file: the name "<project_name>.out" is looked up among the   *)
(* paths glob returned; file names are (dir, stem, ext) triples.           *)
(***************************************************************************)
ForceFileName(project) == [dir |-> "", stem |-> project, ext |-> "out"]
\* TRUE when the lookup prints its message and calls sys.exit(1).
GetForceFileExits(project, fs) == ForceFileName(project) \notin fs

(***************************************************************************)
(* The output file as _fetch_properties reads it: a sequence of lines,     *)
(* each of one kind k with one number v.                                   *)
(*   "count"   the first line; its first token is the atom count v         *)
(*   "energy"  a line matching "Total FORCE_EVAL" whose last token is v    *)
(*   "fstart"  the line matching "# Atom   Kind   Element   X   Y   Z"     *)
(*   "fend"    the line matching "SUM OF ATOMIC FORCES"                    *)
(*   "row"     a row of the force table whose force vector has norm v      *)
(* Line numbers are counted from 0 as enumerate counts them; line i of the *)
(* file is lines[i + 1].                                                   *)
(***************************************************************************)
Line(k, v) == [k |-> k, v |-> v]

\* _read_energy: one pass of the for loop; energy is <<>> while it is None.
EnergyStep_KeepFirst(energy, line) ==
    IF line.k = "energy" /\ energy = <<>> THEN <<line.v>> ELSE energy
EnergyStep(energy, line) ==
    IF line.k = "energy" THEN <<line.v>> ELSE energy

\* The for loop of _read_energy over the lines from position i on.
RECURSIVE ScanEnergy(_, _, _)
ScanEnergy(lines, i, energy) ==
    IF i >= Len(lines) THEN energy
    ELSE ScanEnergy(lines, i + 1, EnergyStep(energy, lines[i + 1]))

\* _read_energy is called after readline() has consumed line 0.
ReadEnergy(lines) == ScanEnergy(lines, 1, <<>>)

\* _read_forces, first loop: start and stop are <<>> while they are unbound.
Unbound == [start |-> <<>>, stop |-> <<>>]
MarkerStep_Inclusive(b, i, line) ==
    IF line.k = "fstart" THEN [b EXCEPT !.start = <<i>>]
    ELSE IF line.k = "fend" THEN [b EXCEPT !.stop = <<i>>]
    ELSE b
MarkerStep(b, i, line) ==
    IF line.k = "fstart" THEN [b EXCEPT !.start = <<i + 1>>]
    ELSE IF line.k = "fend" THEN [b EXCEPT !.stop = <<i - 1>>]
    ELSE b

RECURSIVE FindMarkers(_, _, _)
FindMarkers(lines, i, b) ==
    IF i >= Len(lines) THEN b
    ELSE FindMarkers(lines, i + 1, MarkerStep(b, i, lines[i + 1]))

\* _read_forces, second loop. Reading an unbound start or stop raises
\* UnboundLocalError; astype(float) on a line that is not a table row raises
\* ValueError.
RECURSIVE SumRows(_, _, _, _)
SumRows(lines, i, b, force) ==
    IF i >= Len(lines) THEN [status |-> "ok", force |-> force]
    ELSE IF b.start = <<>> THEN [status |-> "UnboundLocalError", force |-> force]
    ELSE IF i < b.start[1] THEN SumRows(lines, i + 1, b, force)
    ELSE IF b.stop = <<>> THEN [status |-> "UnboundLocalError", force |-> force]
    ELSE IF i <= b.stop[1]
         THEN IF lines[i + 1].k = "row"
              THEN SumRows(lines, i + 1, b, force + lines[i + 1].v)
              ELSE [status |-> "ValueError", force |-> force]
    ELSE [status |-> "ok", force |-> force]

\* _read_forces: force/n_atoms. Row norms are multiples of the atom counts
\* used, so the mean is a whole number of units.
ReadForces(lines, n_atoms) ==
    LET r == SumRows(lines, 0, FindMarkers(lines, 0, Unbound), 0)
    IN [status |-> r.status, force |-> r.force \div n_atoms]

\* _fetch_properties after _get_force_file has returned: "ok" with the
\* energy and the mean force, "exit" when _read_energy calls sys.exit(1),
\* or the exception _read_forces raises.
FetchProperties(lines) ==
    LET n_atoms == lines[1].v
        energy == ReadEnergy(lines)
    IN IF energy = <<>>
       THEN [status |-> "exit", energy |-> 0, force |-> 0]
       ELSE LET f == ReadForces(lines, n_atoms)
            IN [status |-> f.status, energy |-> energy[1], force |-> f.force]

(***************************************************************************)
(* _check_progress on the energy and force lists of one key.               *)
(* np.diff gives all first differences; a list index out of range raises.  *)
(***************************************************************************)
Diff(s) == IF Len(s) < 2 THEN <<>> ELSE [i \in 1..(Len(s) - 1) |-> s[i + 1] - s[i]]

CheckProgressRaises(en, fr) ==
    Len(en) >= 2 /\ Last(Diff(en)) # 0 /\ Len(fr) < 2

CheckProgress_Le(en, fr, tol) ==
    IF Len(en) < 2 THEN 0
    ELSE IF Last(Diff(en)) # 0 /\ Last(Diff(fr)) <= tol THEN 0 ELSE 1
CheckProgress(en, fr, tol) ==
    IF Len(en) < 2 THEN 0
    ELSE IF Last(Diff(en)) # 0 /\ Last(Diff(fr)) < tol THEN 0 ELSE 1

(***************************************************************************)
(* Inputs.                                                                 *)
(***************************************************************************)
Tolerances == {0, 1}
Samples == [energy : Energies, force : Forces]

\* start/stop dictionaries given to the constructor.
Configs ==
    {[start |-> DefaultStart, stop |-> DefaultStop],
     [start |-> [Cutoff |-> 150, Ngrids |-> 3, Rel_cutoff |-> 40],
      stop  |-> [Cutoff |-> 500, Ngrids |-> 10, Rel_cutoff |-> 80]]}

\* Paths glob.glob(f"{cwd}/*.xyz") can return: every one ends in ".xyz".
GlobNames ==
    {[dir |-> "./", stem |-> "optimization", ext |-> "xyz"],
     [dir |-> "./", stem |-> "optimization-frc-1", ext |-> "xyz"]}

EmptyDict == <<>>
Dict(keys, v) == [k \in keys |-> v]

\* Histories with at most n entries drawn from S.
SeqsUpTo(S, n) == UNION {[1..k -> S] : k \in 0..n}

\* Output files an engine run of the sweep can leave: two atoms, one energy
\* line and a complete force table for each sample; the same without an
\* energy line; the same without a force table.
WellFormed(e, f) ==
    <<Line("count", 2), Line("energy", e), Line("fstart", 0),
      Line("row", 2 * f), Line("row", 0), Line("fend", 0)>>
NoEnergyLine ==
    <<Line("count", 2), Line("fstart", 0), Line("row", 0), Line("row", 0),
      Line("fend", 0)>>
NoForceTable == <<Line("count", 2), Line("energy", 0)>>
EngineArtifacts ==
    {WellFormed(s.energy, s.force) : s \in Samples} \cup {NoEnergyLine, NoForceTable}

\* Output files of at most MaxLines lines after the atom-count line.
AtomCounts == {1, 2}
BodyLines ==
    {Line("energy", e) : e \in Energies}
        \cup {Line("row", 2 * f) : f \in Forces}
        \cup {Line("fstart", 0), Line("fend", 0)}
Artifacts ==
    {<<Line("count", n)>> \o body : n \in AtomCounts, body \in SeqsUpTo(BodyLines, MaxLines)}

\* Arguments of the constructor.
TemplateFiles == {"None", "template.inp"}
Built == <<"CP2K", "parse">>

NoneYet == [p \in Params |-> <<>>]
NotStarted == [p \in Params |-> "NotStarted"]

(***************************************************************************)
(* Init: the optimizer as __init__ leaves it (non-string stop, template    *)
(* given), at the call of run_optimizer.                                   *)
(***************************************************************************)
Init ==
    /\ pc = "get_static_range"
    /\ status = "running"
    /\ stage = 0
    /\ idx = 0
    /\ \E c \in Configs : start = c.start /\ stop = c.stop
    /\ atoms \in {"None", "Atoms"}
    /\ tolerance \in Tolerances
    /\ project_name = "optimization"
    /\ files \in SUBSET GlobNames
    /\ loop_range = EmptyDict
    /\ m_grid = EmptyDict
    /\ energy_array = EmptyDict
    /\ force_array = EmptyDict
    /\ verdict = NoneYet
    /\ outcome = NotStarted
    /\ accepted = NoneYet
    /\ cell = 0
    /\ runs = <<>>
    /\ nums = SourceNum
    /\ template_file = "template.inp"
    /\ calculator = Built
    /\ artifact = <<>>

(***************************************************************************)
(* InitSweep: run_optimizer called on an optimizer whose owner has filled  *)
(* energy_array and force_array (left as constructed, given the three      *)
(* keys with empty lists, or given the three keys with one earlier sample  *)
(* each), whose artifact lookup finds the output file, and which was      *)
(* given an atoms object.                                                  *)
(***************************************************************************)
InitSweep ==
    /\ pc = "get_static_range"
    /\ status = "running"
    /\ stage = 0
    /\ idx = 0
    /\ start = DefaultStart
    /\ stop = DefaultStop
    /\ atoms = "Atoms"
    /\ tolerance \in Tolerances
    /\ project_name = "optimization"
    /\ files = {ForceFileName(project_name)}
    /\ loop_range = EmptyDict
    /\ m_grid = EmptyDict
    /\ \/ energy_array = EmptyDict /\ force_array = EmptyDict
       \/ \E h \in SeqsUpTo(Samples, 1) :
            /\ energy_array = Dict(Params, [i \in 1..Len(h) |-> h[i].energy])
            /\ force_array = Dict(Params, [i \in 1..Len(h) |-> h[i].force])
    /\ verdict = NoneYet
    /\ outcome = NotStarted
    /\ accepted = NoneYet
    /\ cell = 0
    /\ runs = <<>>
    /\ nums = SweepNum
    /\ template_file = "template.inp"
    /\ calculator = Built
    /\ artifact = <<>>

(***************************************************************************)
(* InitCheck: _check_progress called for one of the three sweeps on        *)
(* arbitrary energy and force lists.                                       *)
(***************************************************************************)
InitCheck ==
    /\ pc = "check"
    /\ status = "running"
    /\ stage \in 1..Len(StageOrder)
    /\ idx = 0
    /\ start = DefaultStart
    /\ stop = DefaultStop
    /\ atoms = "None"
    /\ tolerance \in Tolerances \cup {2}
    /\ project_name = "optimization"
    /\ files = {}
    /\ loop_range = GetStaticRangeOf(start, stop, SweepNum)
    /\ m_grid = EmptyDict
    /\ \E en \in SeqsUpTo(Energies, MaxHist), fr \in SeqsUpTo(Forces \cup {2}, MaxHist) :
            /\ energy_array = Dict(Params, en)
            /\ force_array = Dict(Params, fr)
    /\ verdict = NoneYet
    /\ outcome = NotStarted
    /\ accepted = NoneYet
    /\ cell = 0
    /\ runs = <<>>
    /\ nums = SweepNum
    /\ template_file = "template.inp"
    /\ calculator = Built
    /\ artifact = <<>>

(***************************************************************************)
(* InitConstruct: the call of the constructor, with a stop dictionary or   *)
(* the string 'auto', with or without a template file.                     *)
(***************************************************************************)
InitConstruct ==
    /\ pc = "init"
    /\ status = "running"
    /\ stage = 0
    /\ idx = 0
    /\ \E c \in Configs : start = c.start /\ stop \in {c.stop, AutoStop}
    /\ atoms \in {"None", "Atoms"}
    /\ tolerance \in Tolerances
    /\ project_name = "optimization"
    /\ files \in SUBSET GlobNames
    /\ loop_range = EmptyDict
    /\ m_grid = EmptyDict
    /\ energy_array = EmptyDict
    /\ force_array = EmptyDict
    /\ verdict = NoneYet
    /\ outcome = NotStarted
    /\ accepted = NoneYet
    /\ cell = 0
    /\ runs = <<>>
    /\ nums = SourceNum
    /\ template_file \in TemplateFiles
    /\ calculator = <<>>
    /\ artifact = <<>>

(***************************************************************************)
(* InitExtract: _update_property_arrays called in the Cutoff sweep with    *)
(* an arbitrary output file in place and empty histories.                  *)
(***************************************************************************)
InitExtract ==
    /\ pc = "fetch"
    /\ status = "running"
    /\ stage = 1
    /\ idx = 1
    /\ start = DefaultStart
    /\ stop = DefaultStop
    /\ atoms = "None"
    /\ tolerance = 0
    /\ project_name = "optimization"
    /\ files = {ForceFileName(project_name)}
    /\ loop_range = GetStaticRangeOf(start, stop, SweepNum)
    /\ m_grid = EmptyDict
    /\ energy_array = Dict(Params, <<>>)
    /\ force_array = Dict(Params, <<>>)
    /\ verdict = NoneYet
    /\ outcome = NotStarted
    /\ accepted = NoneYet
    /\ cell = 0
    /\ runs = <<>>
    /\ nums = SweepNum
    /\ template_file = "template.inp"
    /\ calculator = Built
    /\ artifact \in Artifacts

(***************************************************************************)
(* InitRange: _get_static_range called with start <= stop for every        *)
(* parameter, and the num arguments of the source.                         *)
(***************************************************************************)
InitRange ==
    /\ pc = "get_static_range"
    /\ status = "running"
    /\ stage = 0
    /\ idx = 0
    /\ \/ \E c \in Configs : start = c.start /\ stop = c.stop
       \/ \E a \in 0..MaxEnd : \E b \in a..MaxEnd :
            start = Dict(Params, a) /\ stop = Dict(Params, b)
    /\ atoms = "None"
    /\ tolerance = 0
    /\ project_name = "optimization"
    /\ files = {}
    /\ loop_range = EmptyDict
    /\ m_grid = EmptyDict
    /\ energy_array = EmptyDict
    /\ force_array = EmptyDict
    /\ verdict = NoneYet
    /\ outcome = NotStarted
    /\ accepted = NoneYet
    /\ cell = 0
    /\ runs = <<>>
    /\ nums = SourceNum
    /\ template_file = "template.inp"
    /\ calculator = Built
    /\ artifact = <<>>

Running == status = "running"
Param == StageOrder[stage]

(***************************************************************************)
(* run_optimizer, step by step.                                            *)
(***************************************************************************)
\* __init__ up to the checks: the attributes are stored and the calculator is
\* created and asked to parse the template. What parse does with None is the
\* library's affair: it returns or it raises.
CreateCalculator ==
    /\ Running /\ pc = "init"
    /\ calculator' = Built
    /\ \/ pc' = "run_checks" /\ status' = status
       \/ template_file = "None" /\ pc' = pc /\ status' = "Exception"
    /\ UNCHANGED <<stage, idx, start, stop, atoms, tolerance, project_name, files,
                   loop_range, m_grid, energy_array, force_array, verdict,
                   outcome, accepted, cell, runs, nums, template_file, artifact>>

\* The checks that end __init__: both call sys.exit(1).
RunChecks_NoAutoCheck ==
    /\ Running /\ pc = "run_checks"
    /\ IF template_file = "None"
       THEN pc' = pc /\ status' = "exit"
       ELSE pc' = "get_static_range" /\ status' = status
    /\ UNCHANGED <<stage, idx, start, stop, atoms, tolerance, project_name, files,
                   loop_range, m_grid, energy_array, force_array, verdict,
                   outcome, accepted, cell, runs, nums, template_file,
                   calculator, artifact>>
RunChecks ==
    /\ Running /\ pc = "run_checks"
    /\ IF IsStr(stop) \/ template_file = "None"
       THEN pc' = pc /\ status' = "exit"
       ELSE pc' = "get_static_range" /\ status' = status
    /\ UNCHANGED <<stage, idx, start, stop, atoms, tolerance, project_name, files,
                   loop_range, m_grid, energy_array, force_array, verdict,
                   outcome, accepted, cell, runs, nums, template_file,
                   calculator, artifact>>

\* _get_static_range; indexing a string stop with a key raises TypeError.
GetStaticRange ==
    /\ Running /\ pc = "get_static_range"
    /\ IF IsStr(stop)
       THEN /\ status' = "TypeError"
            /\ UNCHANGED <<pc, loop_range>>
       ELSE /\ loop_range' = GetStaticRangeOf(start, stop, nums)
            /\ pc' = "set_defaults"
            /\ status' = status
    /\ UNCHANGED <<stage, idx, start, stop, atoms, tolerance, project_name,
                   files, m_grid, energy_array, force_array, verdict, outcome,
                   accepted, cell, runs>>
    /\ UNCHANGED <<nums, template_file, calculator, artifact>>

\* _set_defaults_parameters.
SetDefaultsParameters_Last ==
    /\ Running /\ pc = "set_defaults"
    /\ m_grid' = UpdateProperty(m_grid,
                    [Rel_cutoff |-> Last(loop_range.Rel_cutoff),
                     Ngrids     |-> Last(loop_range.Ngrids)])
    /\ pc' = "build_cell"
    /\ UNCHANGED <<status, stage, idx, start, stop, atoms, tolerance, project_name,
                   files, loop_range, energy_array, force_array, verdict, outcome,
                   accepted, cell, runs>>
    /\ UNCHANGED <<nums, template_file, calculator, artifact>>
SetDefaultsParameters ==
    /\ Running /\ pc = "set_defaults"
    /\ m_grid' = UpdateProperty(m_grid,
                    [Rel_cutoff |-> loop_range.Rel_cutoff[1],
                     Ngrids     |-> loop_range.Ngrids[1]])
    /\ pc' = "build_cell"
    /\ UNCHANGED <<status, stage, idx, start, stop, atoms, tolerance, project_name,
                   files, loop_range, energy_array, force_array, verdict, outcome,
                   accepted, cell, runs>>
    /\ UNCHANGED <<nums, template_file, calculator, artifact>>

\* _build_cell, then entry into _run_cutoff_optimization.
BuildCell_Always ==
    /\ Running /\ pc = "build_cell"
    /\ cell' = cell + 1
    /\ pc' = "for" /\ stage' = 1 /\ idx' = 0
    /\ UNCHANGED <<status, start, stop, atoms, tolerance, project_name, files,
                   loop_range, m_grid, energy_array, force_array, verdict,
                   outcome, accepted, runs>>
    /\ UNCHANGED <<nums, template_file, calculator, artifact>>
BuildCell ==
    /\ Running /\ pc = "build_cell"
    /\ cell' = IF atoms # "None" THEN cell + 1 ELSE cell
    /\ pc' = "for" /\ stage' = 1 /\ idx' = 0
    /\ UNCHANGED <<status, start, stop, atoms, tolerance, project_name, files,
                   loop_range, m_grid, energy_array, force_array, verdict,
                   outcome, accepted, runs>>
    /\ UNCHANGED <<nums, template_file, calculator, artifact>>

\* Leaving one sweep method: the next one is entered, or run_optimizer returns.
Leave ==
    IF stage < Len(StageOrder)
    THEN /\ stage' = stage + 1 /\ idx' = 0 /\ pc' = "for" /\ status' = status
    ELSE /\ stage' = stage /\ idx' = idx /\ pc' = "done" /\ status' = "done"

\* The for loop takes its next item: _update_property, write_input_file, run;
\* the run leaves an output file.
Dispatch ==
    /\ Running /\ pc = "for" /\ idx < Len(loop_range[Param])
    /\ LET item == loop_range[Param][idx + 1]
           grid == UpdateProperty(m_grid, Single(Param, item))
       IN /\ m_grid' = grid
          /\ runs' = Append(runs, [param |-> Param, index |-> idx + 1,
                                   grid |-> grid, cell |-> cell])
    /\ idx' = idx + 1
    /\ outcome' = [outcome EXCEPT ![Param] = "Running"]
    /\ artifact' \in EngineArtifacts
    /\ pc' = "fetch"
    /\ UNCHANGED <<status, stage, start, stop, atoms, tolerance, project_name,
                   files, loop_range, energy_array, force_array, verdict,
                   accepted, cell>>
    /\ UNCHANGED <<nums, template_file, calculator>>

\* The for loop has no item left: the sweep method returns.
StageExhausted_Rebind ==
    /\ Running /\ pc = "for" /\ idx = Len(loop_range[Param])
    /\ outcome' = [outcome EXCEPT ![Param] = "Exhausted"]
    /\ m_grid' = UpdateProperty(m_grid,
           Single(Param, energy_array[Param][Len(energy_array[Param]) - 1]))
    /\ accepted' = [accepted EXCEPT ![Param] = <<m_grid'[Param]>>]
    /\ Leave
    /\ UNCHANGED <<start, stop, atoms, tolerance, project_name, files, loop_range,
                   energy_array, force_array, verdict, cell, runs>>
    /\ UNCHANGED <<nums, template_file, calculator, artifact>>
StageExhausted ==
    /\ Running /\ pc = "for" /\ idx = Len(loop_range[Param])
    /\ outcome' = [outcome EXCEPT ![Param] = "Exhausted"]
    /\ accepted' = [accepted EXCEPT ![Param] = <<m_grid[Param]>>]
    /\ Leave
    /\ UNCHANGED <<start, stop, atoms, tolerance, project_name, files, loop_range,
                   m_grid, energy_array, force_array, verdict, cell, runs>>
    /\ UNCHANGED <<nums, template_file, calculator, artifact>>

\* _fetch_properties when _get_force_file does not find the output file.
FetchExit ==
    /\ Running /\ pc = "fetch"
    /\ GetForceFileExits(project_name, files)
    /\ status' = "exit"
    /\ UNCHANGED <<pc, stage, idx, start, stop, atoms, tolerance, project_name,
                   files, loop_range, m_grid, energy_array, force_array, verdict,
                   outcome, accepted, cell, runs>>
    /\ UNCHANGED <<nums, template_file, calculator, artifact>>

\* _update_property_arrays: _fetch_properties reads the output file, then
\* the energy and the force are appended.
UpdatePropertyArrays_SkipFailed ==
    /\ Running /\ pc = "fetch"
    /\ ~GetForceFileExits(project_name, files)
    /\ LET s == FetchProperties(artifact)
       IN
         IF s.status # "ok"
         THEN /\ status' = status
              /\ pc' = "for"
              /\ UNCHANGED <<energy_array, force_array>>
         ELSE IF Param \notin DOMAIN energy_array
         THEN /\ status' = "KeyError"
              /\ UNCHANGED <<pc, energy_array, force_array>>
         ELSE /\ energy_array' =
                    [energy_array EXCEPT ![Param] = Append(@, s.energy)]
              /\ IF Param \notin DOMAIN force_array
                 THEN /\ status' = "KeyError"
                      /\ UNCHANGED <<pc, force_array>>
                 ELSE /\ force_array' =
                            [force_array EXCEPT ![Param] = Append(@, s.force)]
                      /\ pc' = "check"
                      /\ status' = status
    /\ UNCHANGED <<stage, idx, start, stop, atoms, tolerance, project_name, files,
                   loop_range, m_grid, verdict, outcome, accepted, cell, runs>>
    /\ UNCHANGED <<nums, template_file, calculator, artifact>>
UpdatePropertyArrays_EnergyOnly ==
    /\ Running /\ pc = "fetch"
    /\ ~GetForceFileExits(project_name, files)
    /\ LET s == FetchProperties(artifact)
       IN
         IF s.status # "ok"
         THEN /\ status' = s.status
              /\ UNCHANGED <<pc, energy_array, force_array>>
         ELSE IF Param \notin DOMAIN energy_array
         THEN /\ status' = "KeyError"
              /\ UNCHANGED <<pc, energy_array, force_array>>
         ELSE /\ energy_array' =
                    [energy_array EXCEPT ![Param] = Append(@, s.energy)]
              /\ IF Param \notin DOMAIN force_array
                 THEN /\ status' = "KeyError"
                      /\ UNCHANGED <<pc, force_array>>
                 ELSE /\ force_array' = force_array
                      /\ pc' = "check"
                      /\ status' = status
    /\ UNCHANGED <<stage, idx, start, stop, atoms, tolerance, project_name, files,
                   loop_range, m_grid, verdict, outcome, accepted, cell, runs>>
    /\ UNCHANGED <<nums, template_file, calculator, artifact>>
UpdatePropertyArrays ==
    /\ Running /\ pc = "fetch"
    /\ ~GetForceFileExits(project_name, files)
    /\ LET s == FetchProperties(artifact)
       IN
         IF s.status # "ok"
         THEN /\ status' = s.status
              /\ UNCHANGED <<pc, energy_array, force_array>>
         ELSE IF Param \notin DOMAIN energy_array
         THEN /\ status' = "KeyError"
              /\ UNCHANGED <<pc, energy_array, force_array>>
         ELSE /\ energy_array' =
                    [energy_array EXCEPT ![Param] = Append(@, s.energy)]
              /\ IF Param \notin DOMAIN force_array
                 THEN /\ status' = "KeyError"
                      /\ UNCHANGED <<pc, force_array>>
                 ELSE /\ force_array' =
                            [force_array EXCEPT ![Param] = Append(@, s.force)]
                      /\ pc' = "check"
                      /\ status' = status
    /\ UNCHANGED <<stage, idx, start, stop, atoms, tolerance, project_name, files,
                   loop_range, m_grid, verdict, outcome, accepted, cell, runs>>
    /\ UNCHANGED <<nums, template_file, calculator, artifact>>

\* The call of _check_progress with the key the sweep method passes.
CheckProgressStep ==
    /\ Running /\ pc = "check"
    /\ LET key == CheckKey(Param)
       IN IF \/ key \notin DOMAIN energy_array
             \/ Len(energy_array[key]) >= 2 /\ key \notin DOMAIN force_array
          THEN /\ status' = "KeyError"
               /\ UNCHANGED <<pc, verdict>>
          ELSE IF CheckProgressRaises(energy_array[key], force_array[key])
          THEN /\ status' = "IndexError"
               /\ UNCHANGED <<pc, verdict>>
          ELSE /\ verdict' = [verdict EXCEPT ![Param] = Append(@,
                      CheckProgress(energy_array[key], force_array[key], tolerance))]
               /\ pc' = "branch"
               /\ status' = status
    /\ UNCHANGED <<stage, idx, start, stop, atoms, tolerance, project_name, files,
                   loop_range, m_grid, energy_array, force_array, outcome,
                   accepted, cell, runs>>
    /\ UNCHANGED <<nums, template_file, calculator, artifact>>

\* _check_progress returned 1: continue.
ContinueLoop_Skip ==
    /\ Running /\ pc = "branch"
    /\ Last(verdict[Param]) = 1
    /\ pc' = "for"
    /\ idx' = idx + 1
    /\ UNCHANGED <<status, stage, start, stop, atoms, tolerance, project_name,
                   files, loop_range, m_grid, energy_array, force_array, verdict,
                   outcome, accepted, cell, runs>>
    /\ UNCHANGED <<nums, template_file, calculator, artifact>>
ContinueLoop ==
    /\ Running /\ pc = "branch"
    /\ Last(verdict[Param]) = 1
    /\ pc' = "for"
    /\ UNCHANGED <<status, stage, idx, start, stop, atoms, tolerance, project_name,
                   files, loop_range, m_grid, energy_array, force_array, verdict,
                   outcome, accepted, cell, runs>>
    /\ UNCHANGED <<nums, template_file, calculator, artifact>>

\* _check_progress returned something else: the else branch, then break.
StopBranch_NoBreak ==
    /\ Running /\ pc = "branch"
    /\ Last(verdict[Param]) # 1
    /\ pc' = "for"
    /\ UNCHANGED <<status, stage, idx, start, stop, atoms, tolerance, project_name,
                   files, loop_range, m_grid, energy_array, force_array, verdict,
                   outcome, accepted, cell, runs>>
    /\ UNCHANGED <<nums, template_file, calculator, artifact>>
StopBranch ==
    /\ Running /\ pc = "branch"
    /\ Last(verdict[Param]) # 1
    /\ IF Len(energy_array[Param]) < 2
       THEN /\ status' = "IndexError"
            /\ UNCHANGED <<pc, stage, idx, m_grid, outcome, accepted>>
       ELSE /\ m_grid' = UpdateProperty(m_grid,
                  Single(Param, energy_array[Param][Len(energy_array[Param]) - 1]))
            /\ outcome' = [outcome EXCEPT ![Param] = "ConvergedEarly"]
            /\ accepted' = [accepted EXCEPT ![Param] = <<m_grid'[Param]>>]
            /\ Leave
    /\ UNCHANGED <<start, stop, atoms, tolerance, project_name, files, loop_range,
                   energy_array, force_array, verdict, cell, runs>>
    /\ UNCHANGED <<nums, template_file, calculator, artifact>>

Next ==
    \/ GetStaticRange
    \/ SetDefaultsParameters
    \/ BuildCell
    \/ Dispatch
    \/ FetchExit

NextSweep ==
    \/ GetStaticRange
    \/ SetDefaultsParameters
    \/ BuildCell
    \/ Dispatch
    \/ UpdatePropertyArrays
    \/ CheckProgressStep
    \/ ContinueLoop
    \/ StopBranch
    \/ StageExhausted

NextCheck == CheckProgressStep

NextConstruct ==
    \/ CreateCalculator
    \/ RunChecks
    \/ GetStaticRange
    \/ SetDefaultsParameters
    \/ BuildCell
    \/ Dispatch
    \/ FetchExit

NextExtract == UpdatePropertyArrays

NextRange == GetStaticRange

Spec == Init /\ [][Next]_vars
SpecSweep == InitSweep /\ [][NextSweep]_vars
SpecCheck == InitCheck /\ [][NextCheck]_vars
SpecConstruct == InitConstruct /\ [][NextConstruct]_vars
SpecExtract == InitExtract /\ [][NextExtract]_vars
SpecRange == InitRange /\ [][NextRange]_vars

(***************************************************************************)
(* Properties.                                                             *)
(***************************************************************************)
Finished(p) == outcome[p] \in {"ConvergedEarly", "Exhausted"}

\* Number of candidates of parameter p handed to the engine so far.
NDisp(p) == Cardinality({i \in 1..Len(runs) : runs[i].param = p})

\* The check has just returned to the loop of the current sweep method.
Returned == Running /\ pc = "branch"

AllEnergyDeltasZero(en) == \A i \in 1..(Len(en) - 1) : en[i + 1] = en[i]

\* C1: whenever _check_progress returns for a history of fewer than two
\* samples, it returns 1 ("continue", not converged), so that the loop cannot
\* take its stop branch before a second candidate has been dispatched.
C1_FewerThanTwoNotConverged ==
    (Returned /\ Len(energy_array[Param]) < 2) => Last(verdict[Param]) = 1

\* C2: a stage that stopped on the check after its k-th candidate, k >= 2,
\* leaves its parameter bound to the (k-1)-th candidate of its list.
C2_AcceptedIsPreviousCandidate ==
    \A p \in Params :
        (outcome[p] = "ConvergedEarly" /\ NDisp(p) >= 2)
            => m_grid[p] = loop_range[p][NDisp(p) - 1]

\* C3: a stage whose loop ran out of candidates has dispatched every
\* candidate, every check of the stage returned 1 (never converged), and the
\* parameter is left bound to the last candidate of the list.
C3_ExhaustedKeepsLastCandidate ==
    \A p \in Params :
        outcome[p] = "Exhausted"
            => /\ NDisp(p) = Len(loop_range[p])
               /\ Len(verdict[p]) = Len(loop_range[p])
               /\ \A i \in 1..Len(verdict[p]) : verdict[p][i] = 1
               /\ p \in DOMAIN m_grid
               /\ m_grid[p] = Last(loop_range[p])
               /\ accepted[p] = <<Last(loop_range[p])>>
C3_Witness ==
    /\ outcome["Cutoff"] = "Exhausted"
    /\ outcome["Rel_cutoff"] = "Exhausted"

\* C4: for a history of at least two samples the check returns 0 (converged)
\* exactly when the last energy minus the one before it is non-zero and the
\* last mean force minus the one before it, signed, is strictly below the
\* tolerance; otherwise it returns 1.  Only the last two samples enter.
C4_VerdictIsLastDeltaRule ==
    (Returned /\ Len(energy_array[Param]) >= 2)
        => LET en == energy_array[Param]
               fr == force_array[Param]
               conv == /\ en[Len(en)] - en[Len(en) - 1] # 0
                       /\ fr[Len(fr)] - fr[Len(fr) - 1] < tolerance
           IN Last(verdict[Param]) = IF conv THEN 0 ELSE 1
C4_Witness ==
    /\ Returned
    /\ Len(energy_array[Param]) >= 3
    /\ Last(verdict[Param]) = 0
    /\ LET fr == force_array[Param] IN fr[Len(fr)] < fr[Len(fr) - 1]

\* C5: whenever the check returns for a history in which all consecutive
\* energy differences are zero, it returns 1 (not converged).
C5_ZeroEnergyDeltasNeverStop ==
    (Returned /\ AllEnergyDeltasZero(energy_array[Param]))
        => Last(verdict[Param]) = 1

\* C6: once the check of a stage has returned 0 (stop), no further candidate
\* of that stage is dispatched.
C6_NoDispatchAfterStop ==
    [][\A p \in Params :
          (verdict[p] # <<>> /\ Last(verdict[p]) = 0)
              => \A i \in 1..Len(runs') : i > Len(runs) => runs'[i].param # p]_vars
C6_Witness ==
    /\ outcome["Cutoff"] = "ConvergedEarly"
    /\ NDisp("Cutoff") < Len(loop_range["Cutoff"])
    /\ NDisp("Rel_cutoff") >= 1

\* C7: candidates are dispatched stage by stage in the order Cutoff,
\* Rel_cutoff, Ngrids: a Rel_cutoff candidate only after the Cutoff stage has
\* finished, an Ngrids candidate only after the Rel_cutoff stage has finished,
\* and never a candidate of an earlier stage after one of a later stage.
C7_FixedStageOrder ==
    /\ \A i \in 1..Len(runs) :
        /\ runs[i].param = "Rel_cutoff" => Finished("Cutoff")
        /\ runs[i].param = "Ngrids" => Finished("Cutoff") /\ Finished("Rel_cutoff")
    /\ \A i, j \in 1..Len(runs) :
        i < j => /\ runs[i].param = "Rel_cutoff" => runs[j].param # "Cutoff"
                 /\ runs[i].param = "Ngrids" => runs[j].param = "Ngrids"
C7_Witness == \E i \in 1..Len(runs) : runs[i].param = "Ngrids"

\* C8: every Rel_cutoff run sees Cutoff bound to the value the Cutoff stage
\* left, every Ngrids run sees Cutoff and Rel_cutoff bound to the values
\* their stages left, and a dispatch changes no binding but that of the
\* parameter it varies.
SeesAccepted(g, q) ==
    /\ q \in DOMAIN g
    /\ accepted[q] = <<g[q]>>
C8_EarlierStagesFrozen ==
    /\ [](\A i \in 1..Len(runs) :
            /\ runs[i].param = "Rel_cutoff" => SeesAccepted(runs[i].grid, "Cutoff")
            /\ runs[i].param = "Ngrids" =>
                  /\ SeesAccepted(runs[i].grid, "Cutoff")
                  /\ SeesAccepted(runs[i].grid, "Rel_cutoff"))
    /\ [][(pc = "for" /\ pc' = "fetch") =>
            \A q \in DOMAIN m_grid \ {Param} :
                q \in DOMAIN m_grid' /\ m_grid'[q] = m_grid[q]]_vars
C8_Witness ==
    /\ \E i \in 1..Len(runs) : runs[i].param = "Ngrids"
    /\ outcome["Cutoff"] = "ConvergedEarly"
    /\ outcome["Rel_cutoff"] = "Exhausted"

\* C9 as stated: the mapping holds one key per stage that has bound its
\* parameter, each finished stage's key holds that stage's accepted value, and
\* the Ngrids stage runs with the accepted Cutoff and Rel_cutoff in force.
KeysOfFinishedKept ==
    \A p \in Params :
        Finished(p) => p \in DOMAIN m_grid /\ accepted[p] = <<m_grid[p]>>
NgridsSeesBoth ==
    (stage = 3) => Finished("Cutoff") /\ Finished("Rel_cutoff")
C9_OneNewKeyPerStage ==
    /\ DOMAIN m_grid \subseteq {p \in Params : outcome[p] # "NotStarted"}
    /\ KeysOfFinishedKept
    /\ NgridsSeesBoth

\* C9 amended: Rel_cutoff and Ngrids are bound from _set_defaults_parameters
\* on, before any stage; Cutoff is bound from the first dispatch on; no key is
\* ever removed; each finished stage's key keeps that stage's accepted value
\* through all later stages; the Ngrids stage runs with both in force.
C9_KeysKeptDefaultsPreBound ==
    /\ (pc \notin {"get_static_range", "set_defaults"})
            => {"Rel_cutoff", "Ngrids"} \subseteq DOMAIN m_grid
    /\ (runs # <<>>) => DOMAIN m_grid = Params
    /\ KeysOfFinishedKept
    /\ NgridsSeesBoth
C9_Witness ==
    /\ stage = 3 /\ pc = "fetch"
    /\ outcome["Cutoff"] = "Exhausted"
    /\ outcome["Rel_cutoff"] = "ConvergedEarly"

\* C10 as stated: every engine run happens with the cell and coordinates
\* bound exactly once.
C10_SetupExactlyOnce ==
    /\ cell <= 1
    /\ \A i \in 1..Len(runs) : runs[i].cell = 1

\* C10 amended: when an atoms object is given, the cell and coordinates are
\* bound exactly once and before the first dispatch; when atoms is None they
\* are never bound.
C10_SetupOnceIfAtoms ==
    LET n == IF atoms = "None" THEN 0 ELSE 1
    IN /\ cell <= n
       /\ \A i \in 1..Len(runs) : runs[i].cell = n
       /\ (pc \notin {"get_static_range", "set_defaults", "build_cell"}) => cell = n
C10_Witness ==
    /\ runs # <<>>
    /\ atoms = "Atoms"
    /\ cell = 1

(***************************************************************************)
(* Extraction, construction and candidate lists.                           *)
(***************************************************************************)
Max(S) == CHOOSE x \in S : \A y \in S : y <= x

\* _fetch_properties ended in sys.exit or in an exception of its parsing.
ExtractionFailed ==
    pc = "fetch" /\ status \in {"exit", "UnboundLocalError", "ValueError"}

\* _update_property_arrays has been called and has returned or raised.
Acted == pc = "check" \/ ~Running

\* Positions in the output file of the lines of kind k (the first line is 1).
LinesOf(k) == {i \in 2..Len(artifact) : artifact[i].k = k}

\* C11: when no extraction fails, a run whose first two stages have each
\* converged early or exhausted their candidates stops only normally, with
\* the third stage finished as well.
C11_TerminatesNormally ==
    (/\ Finished("Cutoff") /\ Finished("Rel_cutoff")
     /\ ~Running /\ ~ExtractionFailed)
        => (status = "done" /\ Finished("Ngrids"))

\* C12: a step is only ever taken while the optimizer runs, and the step
\* taken on an output file whose extraction fails ends the run on the spot:
\* nothing is appended to either history, nothing more is dispatched, the
\* loop position and the stage stay where they are.
C12_ExtractionFailureAborts ==
    [][/\ Running
       /\ (pc = "fetch" /\ FetchProperties(artifact).status # "ok")
            => /\ status' # "running"
               /\ UNCHANGED <<pc, stage, idx, energy_array, force_array, runs,
                              m_grid, outcome, accepted>>]_vars
C12_Witness ==
    /\ ExtractionFailed
    /\ stage = 2
    /\ idx < Len(loop_range[Param])
    /\ outcome["Ngrids"] = "NotStarted"

\* C13: the energy appended is the last token of the last line carrying the
\* energy marker; without such a line the extraction ends in sys.exit and
\* appends nothing.
C13_LastEnergyLineWins ==
    Acted =>
        IF LinesOf("energy") = {}
        THEN status = "exit" /\ energy_array[Param] = <<>>
        ELSE /\ status # "exit"
             /\ (pc = "check")
                    => energy_array[Param] = <<artifact[Max(LinesOf("energy"))].v>>
C13_Witness ==
    /\ pc = "check"
    /\ \E i, j \in LinesOf("energy") : i < j /\ artifact[i].v # artifact[j].v

\* C14: an output file without the start marker or without the end marker of
\* the force table never yields a mean force.
C14_NoForceWithoutMarkers ==
    (pc = "check") => (LinesOf("fstart") # {} /\ LinesOf("fend") # {})

\* Sum of the norms of the lines at positions lo..hi of the output file.
RECURSIVE SumNorms(_, _)
SumNorms(lo, hi) == IF lo > hi THEN 0 ELSE artifact[lo].v + SumNorms(lo + 1, hi)

\* C15: with one start marker and one end marker below it, the mean force is
\* the sum over the lines strictly between the two markers divided by the
\* atom count of the first line; no other line contributes.
C15_RowsBetweenMarkersOverAtomCount ==
    (/\ Acted
     /\ LinesOf("energy") # {}
     /\ Cardinality(LinesOf("fstart")) = 1
     /\ Cardinality(LinesOf("fend")) = 1
     /\ Max(LinesOf("fstart")) < Max(LinesOf("fend")))
    => LET s == Max(LinesOf("fstart"))
           e == Max(LinesOf("fend"))
       IN IF \A i \in (s + 1)..(e - 1) : artifact[i].k = "row"
          THEN /\ pc = "check"
               /\ Len(force_array[Param]) = 1
               /\ force_array[Param][1] * artifact[1].v = SumNorms(s + 1, e - 1)
          ELSE status = "ValueError"
C15_Witness ==
    /\ pc = "check"
    /\ artifact[1].v = 2
    /\ Cardinality(LinesOf("fstart")) = 1
    /\ Cardinality(LinesOf("fend")) = 1
    /\ LET s == Max(LinesOf("fstart"))
           e == Max(LinesOf("fend"))
       IN /\ s + 1 < e
          /\ artifact[s + 1].v # 0
          /\ \E i \in LinesOf("row") : (i < s \/ i > e) /\ artifact[i].v # 0

\* C16: with stop given as a string the constructor never returns an
\* optimizer: it ends in sys.exit (or in the exception of parse) before
\* _get_static_range is called, and nothing is ever dispatched.
C16_AutoModeFailsAtConstruction ==
    IsStr(stop) =>
        /\ pc \in {"init", "run_checks"}
        /\ loop_range = EmptyDict
        /\ runs = <<>>
        /\ (pc = "run_checks" /\ ~Running) => status = "exit"
C16_Witness ==
    /\ IsStr(stop)
    /\ template_file # "None"
    /\ pc = "run_checks"
    /\ status = "exit"

\* C17: without a template file no calculator is created or asked to parse.
C17_NoCalculatorWithoutTemplate ==
    (template_file = "None") => calculator = <<>>

\* C18: once _get_static_range has returned, the list of every parameter has
\* exactly num elements, is non-decreasing, starts at start and ends at
\* stop, and its i-th element is start + i*(stop - start)/(num - 1) cut to an
\* integer.
C18_CandidateListShape ==
    (pc = "set_defaults") =>
        \A p \in Params :
            LET l == loop_range[p]
                n == SourceNum[p]
                a == start[p]
                b == stop[p]
            IN /\ Len(l) = n
               /\ l[1] = a
               /\ l[n] = b
               /\ \A i \in 1..(n - 1) : l[i] <= l[i + 1]
               /\ \A i \in 1..n :
                    /\ (l[i] - a) * (n - 1) <= (i - 1) * (b - a)
                    /\ (i - 1) * (b - a) < (l[i] + 1 - a) * (n - 1)
C18_Witness ==
    /\ pc = "set_defaults"
    /\ \E p \in Params :
         /\ start[p] < stop[p]
         /\ \E i \in 1..(Len(loop_range[p]) - 1) : loop_range[p][i] = loop_range[p][i + 1]
         /\ \E i \in 1..(Len(loop_range[p]) - 1) : loop_range[p][i] < loop_range[p][i + 1]

\* C19: once the run has stopped other than on a failed extraction, every
\* stage that was started has reached ConvergedEarly or Exhausted.
C19_StartedStageReachesTerminal ==
    (~Running /\ ~ExtractionFailed) => \A p \in Params : outcome[p] # "Running"

\* C20: the key a sweep method hands to _check_progress is the key its
\* sample was appended under.
C20_CheckKeyIsAppendKey ==
    (Running /\ pc = "check") => CheckKey(Param) = Param

(***************************************************************************)
(* Histories, dispatch order and the artifact lookup.                      *)
(***************************************************************************)
\* C21: when a sweep method is entered, both histories hold its parameter's
\* key with an empty list.
C21_HistoryEmptyAtStageStart ==
    (Running /\ pc = "for" /\ idx = 0) =>
        /\ Param \in DOMAIN energy_array
        /\ Param \in DOMAIN force_array
        /\ energy_array[Param] = <<>>
        /\ force_array[Param] = <<>>

\* C23: once an engine run has left its output file, the lookup of that file
\* does not end the program.
C23_LookupFindsOutputFile ==
    (pc = "fetch" /\ artifact # <<>>) => status # "exit"

\* C24: from the end of _set_defaults_parameters to the end of the Cutoff
\* sweep, Rel_cutoff and Ngrids are bound to the first candidate of their
\* lists, and every engine run of the Cutoff sweep sees these two values.
C24_DefaultsBoundDuringCutoff ==
    /\ (pc = "build_cell" \/ (stage = 1 /\ outcome["Cutoff"] \in {"NotStarted", "Running"}))
            => /\ {"Rel_cutoff", "Ngrids"} \subseteq DOMAIN m_grid
               /\ m_grid["Rel_cutoff"] = loop_range["Rel_cutoff"][1]
               /\ m_grid["Ngrids"] = loop_range["Ngrids"][1]
    /\ \A i \in 1..Len(runs) :
            runs[i].param = "Cutoff"
                => /\ runs[i].grid["Rel_cutoff"] = loop_range["Rel_cutoff"][1]
                   /\ runs[i].grid["Ngrids"] = loop_range["Ngrids"][1]
C24_Witness ==
    /\ stage = 1
    /\ pc = "fetch"
    /\ NDisp("Cutoff") >= 2
    /\ loop_range["Rel_cutoff"][1] # loop_range["Rel_cutoff"][2]

\* Position of parameter p in the order of the sweep methods.
StageOf(p) == CHOOSE k \in 1..Len(StageOrder) : StageOrder[k] = p

\* C22: the engine runs of one parameter carry the indices 1, 2, 3, ... of
\* its list in this order, the runs of one sweep method are never followed
\* by a run of an earlier one, at most one sweep method is under way, every
\* candidate taken so far by the current loop has been dispatched, and all
\* of them but the one in flight have been checked.
C22_SequentialDispatch ==
    /\ \A i \in 1..Len(runs) :
            runs[i].index = Cardinality({j \in 1..i : runs[j].param = runs[i].param})
    /\ \A i \in 1..(Len(runs) - 1) :
            StageOf(runs[i].param) <= StageOf(runs[i + 1].param)
    /\ Cardinality({p \in Params : outcome[p] = "Running"}) <= 1
    /\ (Running /\ stage >= 1) =>
            /\ NDisp(Param) = idx
            /\ Len(verdict[Param]) = IF pc \in {"fetch", "check"} THEN idx - 1 ELSE idx
C22_Witness ==
    /\ pc = "fetch"
    /\ NDisp("Cutoff") >= 2
    /\ NDisp("Rel_cutoff") >= 2

InitCutoff ==
    /\ pc = "get_static_range"
    /\ status = "running"
    /\ stage = 0
    /\ idx = 0
    /\ \/ start = 100 /\ stop = 1600
       \/ \E a \in 0..MaxEnd : \E b \in a..MaxEnd : start = a /\ stop = b
    /\ atoms \in {"None", "Atoms"}
    /\ tolerance \in Tolerances
    /\ project_name = "optimization"
    /\ files = {}
    /\ loop_range = <<>>
    /\ m_grid = EmptyDict
    /\ energy_array = <<>>
    /\ force_array = <<>>
    /\ verdict = NoneYet
    /\ outcome = NotStarted
    /\ accepted = NoneYet
    /\ cell = 0
    /\ runs = <<>>
    /\ nums = SourceNum
    /\ template_file = "None"
    /\ calculator = <<>>
    /\ artifact = <<>>

InitCutoffSweep ==
    /\ pc = "get_static_range"
    /\ status = "running"
    /\ stage = 0
    /\ idx = 0
    /\ start = 100
    /\ stop = 1600
    /\ atoms = "Atoms"
    /\ tolerance \in Tolerances
    /\ project_name = "optimization"
    /\ files = {}
    /\ loop_range = <<>>
    /\ m_grid = EmptyDict
    /\ energy_array = <<>>
    /\ force_array = <<>>
    /\ verdict = NoneYet
    /\ outcome = NotStarted
    /\ accepted = NoneYet
    /\ cell = 0
    /\ runs = <<>>
    /\ nums = SweepNum
    /\ template_file = "None"
    /\ calculator = <<"CP2K">>
    /\ artifact = <<>>

\* CutoffOptimizer._get_static_range (num is 10, as for Cutoff in SourceNum).
CO_GetStaticRange ==
    /\ Running /\ pc = "get_static_range"
    /\ loop_range' = Linspace(start, stop, nums.Cutoff)
    /\ pc' = "for"
    /\ UNCHANGED <<status, stage, idx, start, stop, atoms, tolerance, project_name,
                   files, m_grid, energy_array, force_array, verdict, outcome,
                   accepted, cell, runs, nums, template_file, calculator, artifact>>

\* The for loop takes its next item: _perform_loop_operation. Setting an
\* attribute of the missing calculator, or of atoms when it is None, raises
\* AttributeError; otherwise _run_scf_minimization appends the energy and
\* then the reduced force.
CO_PerformLoopOperation ==
    /\ Running /\ pc = "for" /\ idx < Len(loop_range)
    /\ idx' = idx + 1
    /\ IF calculator = <<>> \/ atoms = "None"
       THEN /\ status' = "AttributeError"
            /\ UNCHANGED <<pc, runs, energy_array, force_array>>
       ELSE /\ runs' = Append(runs, [param |-> "Cutoff", index |-> idx + 1,
                                     grid |-> Single("Cutoff", loop_range[idx + 1]),
                                     cell |-> cell])
            /\ \E s \in Samples :
                 /\ energy_array' = Append(energy_array, s.energy)
                 /\ force_array' = Append(force_array, s.force)
            /\ pc' = "check"
            /\ status' = status
    /\ UNCHANGED <<stage, start, stop, atoms, tolerance, project_name, files,
                   loop_range, m_grid, verdict, outcome, accepted, cell, nums,
                   template_file, calculator, artifact>>

\* CutoffOptimizer._check_progress and the branch on its value: continue on
\* 1, break otherwise.
CO_CheckProgressStep ==
    /\ Running /\ pc = "check"
    /\ LET v == CheckProgress(energy_array, force_array, tolerance)
       IN /\ verdict' = [verdict EXCEPT !["Cutoff"] = Append(@, v)]
          /\ IF v = 1
             THEN pc' = "for" /\ status' = status
             ELSE pc' = "done" /\ status' = "done"
    /\ UNCHANGED <<stage, idx, start, stop, atoms, tolerance, project_name, files,
                   loop_range, m_grid, energy_array, force_array, outcome,
                   accepted, cell, runs, nums, template_file, calculator, artifact>>

\* The for loop has no item left: run_optimizer returns.
CO_LoopExhausted ==
    /\ Running /\ pc = "for" /\ idx = Len(loop_range)
    /\ pc' = "done"
    /\ status' = "done"
    /\ UNCHANGED <<stage, idx, start, stop, atoms, tolerance, project_name, files,
                   loop_range, m_grid, energy_array, force_array, verdict,
                   outcome, accepted, cell, runs, nums, template_file,
                   calculator, artifact>>

NextCutoff ==
    \/ CO_GetStaticRange
    \/ CO_PerformLoopOperation

NextCutoffSweep ==
    \/ CO_GetStaticRange
    \/ CO_PerformLoopOperation
    \/ CO_CheckProgressStep
    \/ CO_LoopExhausted

SpecCutoff == InitCutoff /\ [][NextCutoff]_vars
SpecCutoffSweep == InitCutoffSweep /\ [][NextCutoffSweep]_vars

\* C26: once the loop of CutoffOptimizer.run_optimizer has taken a
\* candidate, the calculator attribute holds a calculator and the candidate
\* was assigned to it.
C26_CalculatorBuiltBeforeDispatch ==
    (idx >= 1) => (calculator # <<>> /\ status # "AttributeError")

====
